---- MODULE Spec2Model ----
(***************************************************************************)
(* PENTrack / pnTracker: the particle driver (bahnen2005.c: main,          *)
(* IntegrateParticle, BruteForceIntegration) and the newer front end       *)
(* (src/main.cpp: main).                                                   *)
(*                                                                         *)
(* Units.  Times are integers in ticks of 1e-6 s; a magnetic field         *)
(* magnitude is an integer in units of 0.05 T, so that BFTargetB = 0.1 T   *)
(* is 2 and BFTargetB + 0.1 is 4.  BFpol (in [-1/2, 1/2]) is kept doubled, *)
(* as an integer in -1..1; a probability is a pair <<numerator,            *)
(* denominator>>.                                                          *)
(***************************************************************************)
EXTENDS Integers, Sequences, FiniteSets, TLC

\* ------------------------------------------------------------------------
\* Program constants
\* ------------------------------------------------------------------------
BFTargetB == 2
BFStepMargin == 2
BFBminReset == 200
BFMinSamples == 10
BFBufferCap == 2000
TrackRolloverRows == 40000
BFRolloverRows == 100000
BPST_NoBruteForce == 1000
BPST_BruteForce == 100
BPST_Charged == 1
OUTPUT_EVERYTHING == 1
OUTPUT_EVERYTHINGandSPIN == 3
OUTPUT_ENDPOINTSandSPIN == 4
OUTPUT_NOTHING == 5

\* ------------------------------------------------------------------------
\* Bounds of the model
\* ------------------------------------------------------------------------
MaxMonteCarloAnzahl == 2
MaxKount == 3
MaxClock == 1
MaxCalls == 2

Handles == {"LOGSCR", "REFLECTLOG", "BFLOG", "ENDLOG", "OUTFILE1"}
LoopLevels == 1..6          \* Energie, r_n, z_n, alpha, gammaa, phi_n
LoopStart == [l \in LoopLevels |-> 0]

Min2(a, b) == IF a < b THEN a ELSE b

\* ------------------------------------------------------------------------
\* State
\* ------------------------------------------------------------------------
VARIABLES
    argv,        \* command line: sequence after the program name
    config,      \* contents of the configuration file(s)
    env,         \* what the integrator, field and geometry may return
    pc,          \* position of main (bahnen2005.c)
    ipc,         \* position inside IntegrateParticle
    args,        \* jobnumber, inpath, outpath
    fh,          \* the FILE* globals: "NULL" or "open"
    mt_seed,     \* seed given to mt_set, for a run and for its replay
    glob,        \* configuration globals
    iMC, lv,     \* Monte-Carlo counter and the six start-value loop variables
    part,        \* per-particle driver state
    bf,          \* state of the spin sub-integrator
    outp,        \* row counters and file counters of the track and BF logs
    hist         \* observations: what has been written, called and counted

bvars == <<argv, config, env, pc, ipc, args, fh, mt_seed, glob, iMC, lv,
           part, bf, outp, hist>>

\* main.cpp front end
VARIABLES
    m_argv,      \* command line of the main.cpp program
    m_config,    \* its config.in [global] section
    m_env,       \* what the source, the integrator and the file system may return
    m_pc,        \* position of main (main.cpp)
    m_args,      \* jobnumber, inpath, outpath, seed
    m_glob,      \* simtype, simcount, secondaries
    m_iMC,       \* loop counter
    m_cur,       \* particle being handled: its secondaries still to integrate
    ID_counter,  \* stop-code counters
    m_hist       \* observations

mvars == <<m_argv, m_config, m_env, m_pc, m_args, m_glob, m_iMC, m_cur, ID_counter, m_hist>>

vars == <<bvars, mvars>>

\* ------------------------------------------------------------------------
\* Initial values of the globals (bahnen2005.c file scope)
\* ------------------------------------------------------------------------
BPST_Initial == 1

InitGlob ==
    [reflektlog |-> 0, ausgabewunsch |-> OUTPUT_NOTHING, ausgabewunschsave |-> 0,
     protneut |-> "unset", BruteForce |-> FALSE, MonteCarlo |-> 0,
     MonteCarloAnzahl |-> 1, polarisation |-> "unset", spinflipcheck |-> 0,
     flipspin |-> TRUE, delx |-> 0, xend |-> 0, loopEnd |-> LoopStart,
     BahnPointSaveTime |-> BPST_Initial]

InitFh == [h \in Handles |-> "NULL"]

InitPart ==
    [stopall |-> 0, kennz |-> 0, x1 |-> 0, x2 |-> 0, xstart |-> 0, Bws |-> 0,
     H |-> 0, Hmax |-> 0]

InitBf ==
    [BFpol |-> 1, offset |-> 0, BFsurvprob |-> <<1, 1>>, BFflipprob |-> <<0, 1>>,
     BFBmin |-> BFBminReset, BFPolmin |-> FALSE, firstint |-> 1, hfs |-> 0, NSF |-> 0,
     mu_n |-> 0, mumB |-> 0, BFtime |-> <<>>, I_n |-> <<"zero">>]

InitOutp ==
    [Zeilencount |-> 0, Filecount |-> 1, BFZeilencount |-> 0, BFFilecount |-> 1,
     time_temp |-> 0, timetemp |-> 0]

NoStep ==
    [called |-> FALSE, Bmin |-> 0, offsetBefore |-> 0, offsetFilled |-> 0,
     nAppended |-> 0, integrated |-> FALSE, updated |-> FALSE, delx_n |-> 0,
     kount |-> 0, ordered |-> TRUE, later |-> FALSE, I_before |-> <<>>, I_start |-> <<>>]

InitHist ==
    [nullWrites |-> {}, calls |-> 0, ausgabe |-> 0, incs |-> 0,
     trackRows |-> 0, trackPeak |-> 0, bfRows |-> 0, bfPeak |-> 0,
     badRollover |-> FALSE,
     segs |-> 0, polSeg |-> 0, updates |-> <<>>, Hseen |-> {},
     stepRows |-> <<>>, rowBefore |-> <<>>, draws |-> 0, startStop |-> FALSE,
     split |-> FALSE, signChanges |-> 0, last |-> NoStep]

\* What a write through a FILE* does: through NULL it is undefined behaviour,
\* which either ends the process or goes on having written nothing.
WriteOutcomes(handle) == IF handle = "NULL" THEN {"crash", "lost"} ELSE {"written"}

NoteWrite(h, name) == IF fh[name] = "NULL" THEN [h EXCEPT !.nullWrites = @ \cup {name}] ELSE h

\* ------------------------------------------------------------------------
\* main (bahnen2005.c)
\* ------------------------------------------------------------------------
\* atoi and istringstream >> int on the command-line words used here: the
\* decimal value of a numeral, 0 for a word that does not start with a digit
Atoi(word) ==
    CASE word = "3" -> 3
      [] word = "5" -> 5
      [] word = "7" -> 7
      [] word = "42" -> 42
      [] OTHER -> 0

\* lines 227-255: positional arguments jobnumber, inpath, outpath
ParseArgs(av) ==
    IF Len(av) + 1 > 3
    THEN [jobnumber |-> Atoi(av[1]), inpath |-> av[2], outpath |-> av[3]]
    ELSE IF Len(av) + 1 > 2
    THEN [jobnumber |-> Atoi(av[1]), inpath |-> av[2], outpath |-> "./out"]
    ELSE IF Len(av) + 1 = 2
    THEN [jobnumber |-> Atoi(av[1]), inpath |-> "./in", outpath |-> "./out"]
    ELSE [jobnumber |-> 0, inpath |-> "./in", outpath |-> "./out"]

Main_ParseArgs ==
    /\ pc = "args"
    /\ args' = ParseArgs(argv)
    /\ pc' = "openlogs"
    /\ UNCHANGED <<mvars, argv, config, env, ipc, fh, mt_seed, glob, iMC, lv, part, bf, outp, hist>>

\* lines 270-285: the log files are opened from the values the globals hold here
OpenReflectLog(g) == g.reflektlog = 1
OpenBFLog(g) == (g.ausgabewunsch = 3) \/ (g.ausgabewunsch = 4)

Main_OpenLogs ==
    /\ pc = "openlogs"
    /\ fh' = [fh EXCEPT !["LOGSCR"] = "open",
                        !["REFLECTLOG"] = IF OpenReflectLog(glob) THEN "open" ELSE @,
                        !["BFLOG"] = IF OpenBFLog(glob) THEN "open" ELSE @,
                        !["ENDLOG"] = "open"]
    /\ pc' = "seed"
    /\ UNCHANGED <<mvars, argv, config, env, ipc, args, mt_seed, glob, iMC, lv, part, bf, outp, hist>>

\* lines 288-292: mt_set(time(NULL) + jobnumber).  Two executions of the same
\* command line each read their own clock.
SeedOf(mytime, jobnumber) == mytime + jobnumber

Main_SeedRNG ==
    /\ pc = "seed"
    /\ \E t1 \in env.clocks, t2 \in env.clocks :
          mt_seed' = <<SeedOf(t1, args.jobnumber), SeedOf(t2, args.jobnumber)>>
    /\ pc' = "config"
    /\ UNCHANGED <<mvars, argv, config, env, ipc, args, fh, glob, iMC, lv, part, bf, outp, hist>>

\* line 365 ConfigInit, lines 419-420
ConfigInit(g, c) ==
    [g EXCEPT !.reflektlog = c.reflektlog, !.ausgabewunsch = c.ausgabewunsch,
              !.ausgabewunschsave = c.ausgabewunsch, !.protneut = c.protneut,
              !.BruteForce = c.BruteForce, !.MonteCarlo = c.MonteCarlo,
              !.MonteCarloAnzahl = c.MonteCarloAnzahl, !.polarisation = c.polarisation,
              !.flipspin = c.flipspin, !.delx = c.delx, !.xend = c.xend,
              !.loopEnd = c.loopEnd]

ForceMonteCarloAnzahl(g) ==
    IF g.MonteCarlo = 0 THEN [g EXCEPT !.MonteCarloAnzahl = 1] ELSE g

Main_ConfigInit ==
    /\ pc = "config"
    /\ glob' = ForceMonteCarloAnzahl(ConfigInit(glob, config))
    /\ pc' = "reflhdr"
    /\ UNCHANGED <<mvars, argv, config, env, ipc, args, fh, mt_seed, iMC, lv, part, bf, outp, hist>>

\* lines 495-496: header of the reflection log
WritesReflectHeader(g) == g.reflektlog = 1

Main_ReflectHeader ==
    /\ pc = "reflhdr"
    /\ IF WritesReflectHeader(glob)
       THEN \E o \in WriteOutcomes(fh["REFLECTLOG"]) :
              /\ hist' = NoteWrite(hist, "REFLECTLOG")
              /\ pc' = IF o = "crash" THEN "crashed" ELSE "kind"
       ELSE /\ hist' = hist
            /\ pc' = "kind"
    /\ UNCHANGED <<mvars, argv, config, env, ipc, args, fh, mt_seed, glob, iMC, lv, part, bf, outp>>

\* lines 503-541: settings that depend on the simulated particle
WritesBFHeader(g) ==
    g.protneut = "NEUTRON" /\ ((g.ausgabewunsch = 3) \/ (g.ausgabewunsch = 4))

KindSetup(g) ==
    IF g.protneut \in {"PROTON", "ELECTRONS"}
    THEN [g EXCEPT !.BahnPointSaveTime = BPST_Charged]
    ELSE g

Main_KindSetup ==
    /\ pc = "kind"
    /\ glob' = KindSetup(glob)
    /\ IF WritesBFHeader(glob)
       THEN \E o \in WriteOutcomes(fh["BFLOG"]) :
              /\ hist' = NoteWrite(hist, "BFLOG")
              /\ pc' = IF o = "crash" THEN "crashed" ELSE "track"
       ELSE /\ hist' = hist
            /\ pc' = "track"
    /\ UNCHANGED <<mvars, argv, config, env, ipc, args, fh, mt_seed, iMC, lv, part, bf, outp>>

\* lines 545-554: the track file is opened and its header written
SavesTrack(aw) == (aw = OUTPUT_EVERYTHING) \/ (aw = OUTPUT_EVERYTHINGandSPIN)

Main_OpenTrack ==
    /\ pc = "track"
    /\ IF SavesTrack(glob.ausgabewunsch)
       THEN /\ fh' = [fh EXCEPT !["OUTFILE1"] = "open"]
            /\ outp' = [outp EXCEPT !.Zeilencount = 0]
       ELSE UNCHANGED <<fh, outp>>
    /\ pc' = "endhdr"
    /\ UNCHANGED <<mvars, argv, config, env, ipc, args, mt_seed, glob, iMC, lv, part, bf, hist>>

\* lines 557-560: header of the end log; line 576: the loops start
Main_EndlogHeader ==
    /\ pc = "endhdr"
    /\ \E o \in WriteOutcomes(fh["ENDLOG"]) :
          /\ hist' = NoteWrite(hist, "ENDLOG")
          /\ pc' = IF o = "crash" THEN "crashed"
                   ELSE IF 1 <= glob.MonteCarloAnzahl THEN "integrate" ELSE "codes"
    /\ iMC' = 1
    /\ lv' = LoopStart
    /\ UNCHANGED <<mvars, argv, config, env, ipc, args, fh, mt_seed, glob, part, bf, outp>>

\* ------------------------------------------------------------------------
\* The integrator's dense output of one driver step (odeint): kount samples
\* xp[1..kount] with xp[1] = x1 and xp[kount] = x2, and |B| at each sample
\* (Bp[13][klauf]): Bfirst at the first, Blast at the last, Bmid in between.
\* ------------------------------------------------------------------------
xp(tab, klauf) == tab.x1 + ((klauf - 1) * (tab.x2 - tab.x1)) \div (tab.kount - 1)

Bp13(tab, klauf) ==
    IF klauf = 1 THEN tab.Bfirst ELSE IF klauf = tab.kount THEN tab.Blast ELSE tab.Bmid

TableMin(tab) ==
    IF tab.kount <= 2 THEN Min2(tab.Bfirst, tab.Blast)
    ELSE Min2(tab.Bfirst, Min2(tab.Bmid, tab.Blast))

\* Up to the time e.lowUntil the trajectory runs through the weakest field of
\* the environment with the densest output; after it every table is possible.
Tables(e, xa, xb, Bstart) ==
    LET ks == {kk \in e.kounts : kk = 2 \/ kk - 1 <= xb - xa}
        quiet == xb <= e.lowUntil
    IN  {[x1 |-> xa, x2 |-> xb, kount |-> k, Bfirst |-> Bstart, Bmid |-> bm, Blast |-> bl] :
            k \in {kk \in ks : quiet => \A k2 \in ks : k2 <= kk},
            bm \in {m \in e.BMids : quiet => \A m2 \in e.BMids : m <= m2},
            bl \in {l \in e.BVals : quiet => \A l2 \in e.BVals : l <= l2}}

\* Entkommen: leaves the particle running or stops it with a stop code
EntkommenOutcomes(e) ==
    {[stopall |-> 0, kennz |-> 0]} \cup
    {[stopall |-> 1, kennz |-> k] : k \in e.kennzs}

Entkommen(p, o) ==
    IF o.stopall = 1 THEN [p EXCEPT !.stopall = 1, !.kennz = o.kennz] ELSE p

\* ------------------------------------------------------------------------
\* BruteForceIntegration (lines 1172-1325)
\* ------------------------------------------------------------------------
\* lines 1176-1182
BFPolminNext(b) ==
    IF b.BFBmin < BFTargetB THEN TRUE
    ELSE IF b.BFBmin >= BFTargetB THEN FALSE ELSE b.BFPolmin

\* lines 1184-1192
RECURSIVE MinBabs(_, _, _)
MinBabs(tab, klauf, m) ==
    IF klauf > tab.kount THEN m
    ELSE MinBabs(tab, klauf + 1, IF Bp13(tab, klauf) < m THEN Bp13(tab, klauf) ELSE m)

\* line 1194
SurvUpdateCond(BFBmin, BFPolmin) == (BFBmin > BFTargetB) /\ BFPolmin

\* line 1196: BFsurvprob = (BFpol+0.5) * BFsurvprob, kept in lowest terms
SurvUpdate(surv, pol2) ==
    IF pol2 = 1 THEN surv
    ELSE IF pol2 = 0 /\ surv[1] > 0 THEN <<surv[1], 2 * surv[2]>>
    ELSE <<0, 1>>

\* line 1197
FlipProb(surv) == <<surv[2] - surv[1], surv[2]>>

\* lines 1199-1202: two calls of mt_get_double() at every update with flipspin
DrawsOf(upd, flipspin) == IF upd /\ flipspin THEN 2 ELSE 0

\* lines 1199-1202: mt_get_double() < 1-(BFpol+0.5), the draw being in [0,1)
FlipOutcomes_IgnoresFlag(flipspin, pol2) ==
    IF pol2 = 1 THEN {FALSE}
    ELSE IF pol2 = -1 THEN {TRUE} ELSE {TRUE, FALSE}

FlipOutcomes(flipspin, pol2) ==
    IF ~flipspin THEN {FALSE}
    ELSE IF pol2 = 1 THEN {FALSE}
    ELSE IF pol2 = -1 THEN {TRUE} ELSE {TRUE, FALSE}

\* line 1219
AppendCond_AtThreshold(BFBmin) == BFBmin <= BFTargetB

AppendCond(BFBmin) == BFBmin < BFTargetB

\* lines 1221-1226
Klaufstart_AlwaysFirst(offset) == 1

Klaufstart(offset) == IF offset > 0 THEN 2 ELSE 1

\* line 1257
OffsetAfterAppend(offset, kount) == offset + kount - (Klaufstart(offset) - 1)

\* lines 1240-1257: the samples klaufstart..kount go behind the offset samples
\* already kept.  BFtime holds the live part BFtime[1..offset] of the buffer.
BFtimeAfterAppend(BFtime, offset, tab) ==
    [i \in 1..OffsetAfterAppend(offset, tab.kount) |->
        IF i <= offset THEN BFtime[i] ELSE xp(tab, i - offset + (Klaufstart(offset) - 1))]

StrictlyIncreasing(seq) == \A i \in 1..(Len(seq) - 1) : seq[i] < seq[i + 1]

\* lines 1264-1270: the spin vector a segment starts from
SegmentStart(firstint, I_n, BFtime) ==
    IF firstint # 0 THEN <<"parallel", BFtime[1]>> ELSE I_n

\* line 1263
IntegrateCond_NoCap(BFBmin, offset) == (BFBmin >= BFTargetB) /\ (offset >= BFMinSamples)

IntegrateCond(BFBmin, offset) ==
    ((BFBmin >= BFTargetB) /\ (offset >= BFMinSamples)) \/ (offset >= BFBufferCap)

\* line 1304
LogsSpin(aw) == (aw = OUTPUT_EVERYTHINGandSPIN) \/ (aw = OUTPUT_ENDPOINTSandSPIN)

\* lines 1306-1317: one row for each BFcount in 2..BFkount
BFRowsOf(BFkount) == IF BFkount >= 2 THEN BFkount - 1 ELSE 0

\* The call as a whole.  r is what the Bloch integrator and the random
\* generator return: pol2 (the projection at the segment end), BFkount, flip.
BruteForceIntegration(b, h, o, g, tab, r) ==
    LET polmin == BFPolminNext(b)
        bmin == MinBabs(tab, 1, BFBminReset)
        upd == SurvUpdateCond(bmin, polmin)
        surv == IF upd THEN SurvUpdate(b.BFsurvprob, b.BFpol) ELSE b.BFsurvprob
        flipped == upd /\ r.flip
        hfs1 == IF flipped THEN -1 * b.hfs ELSE b.hfs
        first1 == IF bmin > BFTargetB THEN 1 ELSE b.firstint
        app == AppendCond(bmin)
        off1 == IF app THEN OffsetAfterAppend(b.offset, tab.kount) ELSE b.offset
        buf1 == IF app THEN BFtimeAfterAppend(b.BFtime, b.offset, tab) ELSE b.BFtime
        int == IntegrateCond(bmin, off1)
        I_start == IF int THEN SegmentStart(first1, b.I_n, buf1) ELSE b.I_n
        rows == IF int /\ LogsSpin(g.ausgabewunsch) THEN BFRowsOf(r.BFkount) ELSE 0
    IN  [bf |-> [b EXCEPT !.BFPolmin = polmin, !.BFBmin = bmin,
                          !.BFsurvprob = surv,
                          !.BFflipprob = IF upd THEN FlipProb(surv) ELSE @,
                          !.hfs = hfs1,
                          !.mu_n = IF flipped THEN hfs1 ELSE @,
                          !.mumB = IF flipped THEN hfs1 ELSE @,
                          !.NSF = IF flipped THEN @ + 1 ELSE @,
                          !.firstint = IF int THEN 0 ELSE first1,
                          !.BFpol = IF int THEN r.pol2 ELSE @,
                          !.offset = IF int THEN 0 ELSE off1,
                          !.BFtime = IF int THEN <<>> ELSE buf1,
                          !.I_n = IF int THEN <<"segment", h.segs + 1>> ELSE @],
         outp |-> [o EXCEPT !.BFZeilencount = @ + rows],
         hist |-> [h EXCEPT
                     !.segs = IF int THEN @ + 1 ELSE @,
                     !.polSeg = IF int THEN h.segs + 1 ELSE @,
                     !.updates = IF upd THEN Append(@, h.polSeg) ELSE @,
                     !.draws = @ + DrawsOf(upd, g.flipspin),
                     !.split = IF ~app THEN FALSE ELSE IF int THEN TRUE ELSE @,
                     !.signChanges = IF hfs1 # b.hfs THEN @ + 1 ELSE @,
                     !.bfRows = IF fh["BFLOG"] = "open" THEN @ + rows ELSE @,
                     !.bfPeak = IF fh["BFLOG"] = "open" /\ h.bfRows + rows > @
                                THEN h.bfRows + rows ELSE @,
                     !.last = [called |-> TRUE,
                               Bmin |-> TableMin(tab),
                               offsetBefore |-> b.offset, offsetFilled |-> off1,
                               nAppended |-> off1 - b.offset,
                               integrated |-> int, updated |-> upd,
                               delx_n |-> tab.x2 - tab.x1,
                               kount |-> tab.kount,
                               ordered |-> StrictlyIncreasing(buf1),
                               later |-> int /\ h.split,
                               I_before |-> b.I_n, I_start |-> I_start]],
         wrote |-> IF rows > 0 THEN {"BFLOG"} ELSE {}]

\* ------------------------------------------------------------------------
\* IntegrateParticle (lines 697-1170)
\* ------------------------------------------------------------------------
\* lines 697-712: reset for a new particle
IP_Reset ==
    /\ pc = "integrate" /\ ipc = "none"
    /\ hist.calls < MaxCalls
    /\ part' = [part EXCEPT !.stopall = 0, !.kennz = 0, !.x1 = 0, !.x2 = 0, !.Hmax = 0]
    /\ bf' = [bf EXCEPT !.BFpol = 1, !.offset = 0, !.BFsurvprob = <<1, 1>>,
                        !.BFflipprob = <<0, 1>>, !.BFtime = <<>>, !.I_n = <<"axis">>]
    /\ hist' = [hist EXCEPT !.calls = @ + 1, !.ausgabe = 0, !.incs = 0, !.segs = 0,
                            !.polSeg = 0, !.updates = <<>>, !.Hseen = {}, !.stepRows = <<>>,
                            !.rowBefore = <<>>, !.draws = 0, !.startStop = FALSE,
                            !.split = FALSE, !.signChanges = 0, !.last = NoStep]
    /\ ipc' = IF glob.MonteCarlo = 1 THEN "mcstart" ELSE "init"
    /\ UNCHANGED <<mvars, argv, config, env, pc, args, fh, mt_seed, glob, iMC, lv, outp>>

\* lines 715-727: MCStartwerte draws start values until GeomCheck accepts them
StartValues(g) == {v \in [LoopLevels -> 0..1] : \A l \in LoopLevels : v[l] <= g.loopEnd[l]}

IP_MCStartwerte ==
    /\ pc = "integrate" /\ ipc = "mcstart"
    /\ \E v \in StartValues(glob), xs \in env.xstarts, BadParticle \in env.BadParticle :
          /\ lv' = v
          /\ IF BadParticle = 1
             THEN /\ part' = [part EXCEPT !.xstart = xs]
                  /\ ipc' = "mcstart"
             ELSE /\ part' = [part EXCEPT !.xstart = xs, !.x2 = xs]
                  /\ ipc' = "init"
    /\ UNCHANGED <<mvars, argv, config, env, pc, args, fh, mt_seed, glob, iMC, bf, outp, hist>>

\* lines 732-752: spin label from the polarisation; mu_n is kept in units of
\* mu_nSI / ele_e and mumB in units of mu_nSI / (ele_e M)
HfsOf(polarisation, old) ==
    IF polarisation = "POLARISATION_GOOD" THEN -1
    ELSE IF polarisation = "POLARISATION_BAD" THEN 1
    ELSE IF polarisation = "POLARISATION_NONE" THEN 0 ELSE old

SetsSpinLabel(g) ==
    g.protneut = "NEUTRON"
    /\ g.polarisation \in {"POLARISATION_GOOD", "POLARISATION_BAD", "POLARISATION_NONE"}

BruteForceStart(b, g) ==
    IF g.BruteForce
    THEN [b EXCEPT !.NSF = 0, !.firstint = 0,
                   !.hfs = IF g.protneut = "NEUTRON" THEN HfsOf(g.polarisation, @) ELSE @,
                   !.mu_n = IF SetsSpinLabel(g) THEN HfsOf(g.polarisation, b.hfs) ELSE @,
                   !.mumB = IF SetsSpinLabel(g) THEN HfsOf(g.polarisation, b.hfs) ELSE @]
    ELSE b

\* lines 891-901: the spin vector starts parallel to the field at the start point
SpinStart(b, g, x) ==
    IF g.protneut \in {"NEUTRON", "PROTON", "ELECTRONS"} /\ g.BruteForce
    THEN [b EXCEPT !.I_n = <<"parallel", x>>] ELSE b

\* lines 816-823 and 1162-1169: push the loop variables past their ends
PastEnds(v, g, levels) == [l \in LoopLevels |-> IF l \in levels THEN g.loopEnd[l] + 1 ELSE v[l]]

\* line 825: a neutron with negative kinetic energy returns at once
ReturnsEarly(g, EkinNegative) == g.protneut = "NEUTRON" /\ EkinNegative

\* lines 729-915
IP_Init ==
    /\ pc = "integrate" /\ ipc = "init"
    /\ \E EkinNegative \in env.EkinNegative, B0 \in env.BVals, eo \in EntkommenOutcomes(env),
          H0 \in env.Hs :
          IF ReturnsEarly(glob, EkinNegative)
          THEN /\ part' = [part EXCEPT !.stopall = 1, !.kennz = 0, !.Bws = B0]
               /\ glob' = [glob EXCEPT !.ausgabewunsch = OUTPUT_NOTHING]
               /\ lv' = IF glob.MonteCarlo # 0 THEN PastEnds(lv, glob, 1..5) ELSE lv
               /\ outp' = outp
               /\ hist' = hist
               /\ ipc' = "ret"
          ELSE /\ part' = [Entkommen([part EXCEPT !.stopall = 0, !.kennz = 0, !.Bws = B0], eo)
                              EXCEPT !.H = H0, !.Hmax = H0]
               /\ hist' = [hist EXCEPT !.Hseen = {H0}, !.startStop = (part'.stopall # 0)]
               /\ glob' = IF glob.protneut = "NEUTRON"
                          THEN [glob EXCEPT !.ausgabewunsch = glob.ausgabewunschsave]
                          ELSE glob
               /\ lv' = lv
               /\ outp' = [outp EXCEPT !.timetemp = 0]
               /\ ipc' = "loop"
    /\ bf' = IF ipc' = "ret" THEN BruteForceStart(bf, glob)
             ELSE SpinStart(BruteForceStart(bf, glob), glob, part.x2)
    /\ UNCHANGED <<mvars, argv, config, env, pc, args, fh, mt_seed, iMC>>

\* lines 922-927
DelxN_NoAdvance(Bws, BruteForce, delx) == 0

DelxN(Bws, BruteForce, delx) ==
    IF (Bws < BFTargetB + BFStepMargin) /\ BruteForce THEN delx \div 10
    ELSE IF (Bws < BFTargetB) /\ BruteForce THEN delx \div 100
    ELSE delx

\* lines 968-974
BahnPointSaveTimeNext(g) ==
    IF g.spinflipcheck = 3 THEN BPST_BruteForce
    ELSE IF (~g.BruteForce) /\ g.protneut # "PROTON" /\ g.protneut # "ELECTRONS"
         THEN BPST_NoBruteForce
    ELSE IF g.BruteForce THEN BPST_BruteForce
    ELSE g.BahnPointSaveTime

\* lines 985-1013: the dense samples 2..kount, one row whenever
\* BahnPointSaveTime has passed since the row before
\* The rows are collected as the sequence of their time values.
RECURSIVE DenseRows(_, _, _, _, _)
DenseRows(tab, klauf, time_temp, BPST, rows) ==
    IF klauf > tab.kount THEN [rows |-> rows, time_temp |-> time_temp]
    ELSE IF xp(tab, klauf) - time_temp >= BPST
         THEN DenseRows(tab, klauf + 1, xp(tab, klauf), BPST, Append(rows, xp(tab, klauf)))
         ELSE DenseRows(tab, klauf + 1, time_temp, BPST, rows)

\* lines 1029-1030: the time written in an end-point row
EndPointRowTime_StepStart(tab) == tab.x1

EndPointRowTime(tab) == tab.x2

\* lines 984-1039
TrackOutput(o, g, tab) ==
    IF SavesTrack(g.ausgabewunsch) /\ (tab.x2 - tab.x1 >= g.BahnPointSaveTime)
    THEN LET d == DenseRows(tab, 2, o.time_temp, g.BahnPointSaveTime, <<>>)
         IN  [outp |-> [o EXCEPT !.Zeilencount = @ + Len(d.rows), !.time_temp = d.time_temp],
              rows |-> d.rows]
    ELSE IF SavesTrack(g.ausgabewunsch) /\ (tab.x2 - tab.x1 < g.BahnPointSaveTime)
              /\ (tab.x2 - o.timetemp >= g.BahnPointSaveTime)
         THEN [outp |-> [o EXCEPT !.Zeilencount = @ + 1, !.timetemp = tab.x2],
               rows |-> <<EndPointRowTime(tab)>>]
    ELSE [outp |-> o, rows |-> <<>>]

\* line 1041 and line 1057
TrackRolloverCond(Zeilencount) == Zeilencount > TrackRolloverRows

BFRolloverCond(BFZeilencount, BruteForce) == (BFZeilencount > BFRolloverRows) /\ BruteForce

\* line 962
HmaxNext_LastValue(H, Hmax) == H

HmaxNext(H, Hmax) == IF H > Hmax THEN H ELSE Hmax

\* line 1083
LoopContinues(p, g) == (p.x2 - p.xstart <= g.xend) /\ (p.stopall = 0)

\* What the random generator and the Bloch integrator may return in one call
BlochResults(e, g, b) ==
    {[pol2 |-> q, BFkount |-> k, flip |-> f] :
        q \in e.pol2s, k \in e.BFkounts, f \in FlipOutcomes(g.flipspin, b.BFpol)}

\* lines 916-1083: one iteration of the driver loop
DriverStep(tab, r, eo, H) ==
    LET g1 == [glob EXCEPT !.BahnPointSaveTime = BahnPointSaveTimeNext(glob)]
        bfr == IF glob.BruteForce
               THEN BruteForceIntegration(bf, hist, outp, g1, tab, r)
               ELSE [bf |-> bf, outp |-> outp,
                     hist |-> [hist EXCEPT !.last = [NoStep EXCEPT !.delx_n = tab.x2 - tab.x1]],
                     wrote |-> {}]
        tr == TrackOutput(bfr.outp, g1, tab)
        troll == TrackRolloverCond(tr.outp.Zeilencount)
        o2 == IF troll THEN [tr.outp EXCEPT !.Filecount = @ + 1, !.Zeilencount = 1]
              ELSE tr.outp
        bfroll == BFRolloverCond(o2.BFZeilencount, glob.BruteForce)
        o3 == IF bfroll THEN [o2 EXCEPT !.BFFilecount = @ + 1, !.BFZeilencount = 1]
              ELSE o2
        wrote == bfr.wrote \cup (IF Len(tr.rows) > 0 \/ troll THEN {"OUTFILE1"} ELSE {})
                           \cup (IF bfroll THEN {"BFLOG"} ELSE {})
        received == IF fh["OUTFILE1"] = "open" THEN bfr.hist.trackRows + Len(tr.rows)
                    ELSE bfr.hist.trackRows
        h3 == [bfr.hist EXCEPT
                 !.nullWrites = @ \cup {n \in wrote : fh[n] = "NULL"},
                 !.trackRows = IF troll THEN 0 ELSE received,
                 !.trackPeak = IF received > @ THEN received ELSE @,
                 !.bfRows = IF bfroll THEN 0 ELSE @,
                 !.Hseen = @ \cup {H},
                 !.stepRows = tr.rows,
                 !.rowBefore = IF bfr.hist.stepRows # <<>>
                               THEN <<bfr.hist.stepRows[Len(bfr.hist.stepRows)]>> ELSE @,
                 !.badRollover = @ \/ (bfroll /\ fh["BFLOG"] = "NULL")
                                   \/ (troll /\ fh["OUTFILE1"] = "NULL")]
        p3 == Entkommen([part EXCEPT !.x1 = tab.x1, !.x2 = tab.x2, !.Bws = tab.Blast,
                                     !.H = H, !.Hmax = HmaxNext(H, @)], eo)
    IN  [glob |-> g1, bf |-> bfr.bf, outp |-> o3, hist |-> h3, part |-> p3,
         fh |-> [fh EXCEPT !["OUTFILE1"] = IF troll THEN "open" ELSE @,
                           !["BFLOG"] = IF bfroll THEN "open" ELSE @],
         nullWrite |-> \E n \in wrote : fh[n] = "NULL"]

IP_DriverStep ==
    /\ pc = "integrate" /\ ipc = "loop"
    /\ \E tab \in Tables(env, part.x2,
                         part.x2 + DelxN(part.Bws, glob.BruteForce, glob.delx), part.Bws),
          r \in BlochResults(env, glob, bf), eo \in EntkommenOutcomes(env), H \in env.Hs :
          \E s \in {DriverStep(tab, r, eo, H)} :
              \E o \in (IF s.nullWrite THEN {"crash", "lost"} ELSE {"written"}) :
                /\ glob' = s.glob
                /\ bf' = s.bf
                /\ outp' = s.outp
                /\ hist' = s.hist
                /\ part' = s.part
                /\ fh' = s.fh
                /\ pc' = IF o = "crash" THEN "crashed" ELSE pc
                /\ ipc' = IF o = "crash" THEN "none"
                          ELSE IF LoopContinues(s.part, s.glob) THEN "loop" ELSE "after"
    /\ UNCHANGED <<mvars, argv, config, env, args, mt_seed, iMC, lv>>

\* lines 1087-1170: the end record, the stop-code counter, the loop variables
IP_End ==
    /\ pc = "integrate" /\ ipc = "after"
    /\ \E o \in WriteOutcomes(fh["ENDLOG"]) :
          /\ hist' = [NoteWrite(hist, "ENDLOG") EXCEPT !.ausgabe = @ + 1, !.incs = @ + 1]
          /\ pc' = IF o = "crash" THEN "crashed" ELSE pc
          /\ ipc' = IF o = "crash" THEN "none" ELSE "ret"
    /\ outp' = [outp EXCEPT !.timetemp = 0, !.time_temp = 0]
    /\ lv' = IF glob.MonteCarlo # 0 THEN PastEnds(lv, glob, 1..6) ELSE lv
    /\ UNCHANGED <<mvars, argv, config, env, args, fh, mt_seed, glob, iMC, part, bf>>

\* ------------------------------------------------------------------------
\* lines 576-597: the Monte-Carlo loop around the six start-value loops
\* ------------------------------------------------------------------------
RECURSIVE AdvanceLoops(_, _, _)
AdvanceLoops(v, l, g) ==
    LET v1 == [v EXCEPT ![l] = @ + 1]
    IN  IF v1[l] <= g.loopEnd[l]
        THEN [exit |-> FALSE, lv |-> [k \in LoopLevels |-> IF k > l THEN 0 ELSE v1[k]]]
        ELSE IF l = 1 THEN [exit |-> TRUE, lv |-> v1]
        ELSE AdvanceLoops(v1, l - 1, g)

Main_LoopAdvance ==
    /\ pc = "integrate" /\ ipc = "ret"
    /\ LET a == AdvanceLoops(lv, 6, glob)
       IN  IF ~a.exit
           THEN /\ lv' = a.lv
                /\ iMC' = iMC
                /\ pc' = "integrate"
           ELSE /\ iMC' = iMC + 1
                /\ lv' = IF iMC + 1 <= glob.MonteCarloAnzahl THEN LoopStart ELSE a.lv
                /\ pc' = IF iMC + 1 <= glob.MonteCarloAnzahl THEN "integrate" ELSE "codes"
    /\ ipc' = "none"
    /\ UNCHANGED <<mvars, argv, config, env, args, fh, mt_seed, glob, part, bf, outp, hist>>

\* lines 599-641
Main_OutputCodes ==
    /\ pc = "codes"
    /\ pc' = "done"
    /\ UNCHANGED <<mvars, argv, config, env, ipc, args, fh, mt_seed, glob, iMC, lv, part, bf, outp, hist>>

Next ==
    \/ Main_ParseArgs
    \/ Main_OpenLogs
    \/ Main_SeedRNG
    \/ Main_ConfigInit
    \/ Main_ReflectHeader
    \/ Main_KindSetup
    \/ Main_OpenTrack
    \/ Main_EndlogHeader
    \/ IP_Reset
    \/ IP_MCStartwerte
    \/ IP_Init
    \/ IP_DriverStep
    \/ IP_End
    \/ Main_LoopAdvance
    \/ Main_OutputCodes

InitProgram ==
    /\ pc = "args" /\ ipc = "none"
    /\ args = [jobnumber |-> 0, inpath |-> "", outpath |-> ""]
    /\ fh = InitFh
    /\ mt_seed = <<0, 0>>
    /\ glob = InitGlob
    /\ iMC = 0 /\ lv = LoopStart
    /\ part = InitPart /\ bf = InitBf /\ outp = InitOutp /\ hist = InitHist

MainCppOff ==
    /\ m_argv = <<>> /\ m_config = <<>> /\ m_env = <<>> /\ m_pc = "off" /\ m_args = <<>>
    /\ m_glob = <<>> /\ m_iMC = 0 /\ m_cur = <<>> /\ ID_counter = <<>> /\ m_hist = <<>>

\* ------------------------------------------------------------------------
\* Inputs: a configuration (what ConfigInit reads) and what the numerical
\* routines, the geometry and the clock may return during the run
\* ------------------------------------------------------------------------
Cfg(refl, aw, kind, BF, MC, MCA, pol, flip, dx, xe, phie) ==
    [reflektlog |-> refl, ausgabewunsch |-> aw, protneut |-> kind, BruteForce |-> BF,
     MonteCarlo |-> MC, MonteCarloAnzahl |-> MCA, polarisation |-> pol, flipspin |-> flip,
     delx |-> dx, xend |-> xe, loopEnd |-> [LoopStart EXCEPT ![6] = phie]]

Env(ks, bms, bs, stop, ekin, pols, bfks, cl) ==
    [kounts |-> ks, BMids |-> bms, BVals |-> bs, kennzs |-> stop, EkinNegative |-> ekin,
     pol2s |-> pols, BFkounts |-> bfks, clocks |-> cl,
     xstarts |-> {0}, BadParticle |-> {0, 1}, Hs |-> {0}, lowUntil |-> 0]

Run(av, c, e) == [argv |-> av, config |-> c, env |-> e]

InitRuns(runs) ==
    /\ \E r \in runs : argv = r.argv /\ config = r.config /\ env = r.env
    /\ InitProgram
    /\ MainCppOff

\* Spin tracking near the field threshold: fields below, at and above BFTargetB
SpinEnv == Env({MaxKount, BFMinSamples + 1}, {1, 2, 5}, {1, 2, 5}, {1}, {TRUE, FALSE},
               {0, 1}, {2}, {0})

QuietEnv == Env({MaxKount}, {5}, {5}, {1, 2}, {FALSE}, {1}, {2}, {0})

\* The same, started at different readings of the wall clock
ClockEnv == Env({MaxKount}, {5}, {5}, {1, 2}, {FALSE}, {1}, {2}, 0..MaxClock)

SpecRuns ==
    { Run(<<>>, Cfg(1, 3, "NEUTRON", TRUE, 0, 1, "POLARISATION_GOOD", TRUE, 1000, 100, 0),
          SpinEnv),
      Run(<<"3", "./in2">>,
          Cfg(0, 4, "NEUTRON", TRUE, 1, MaxMonteCarloAnzahl, "POLARISATION_BAD", FALSE,
              1000, 100, 1), SpinEnv),
      Run(<<"5">>, Cfg(0, 1, "PROTON", FALSE, 0, 1, "POLARISATION_NONE", TRUE, 100, 200, 1),
          QuietEnv),
      Run(<<"7", "./in3", "./out3">>,
          Cfg(1, 5, "ELECTRONS", FALSE, 0, 1, "POLARISATION_NONE", TRUE, 100, 100, 0),
          ClockEnv) }

Init == InitRuns(SpecRuns)

Spec == Init /\ [][Next]_vars

\* The driver loop runs on: the process keeps executing its next iteration
FairEnv == Env({MaxKount}, {1, 5}, {1, 5}, {1}, {TRUE, FALSE}, {1}, {2}, {0})

FairRuns ==
    { Run(<<>>, Cfg(0, 5, "NEUTRON", TRUE, 0, 1, "POLARISATION_GOOD", TRUE, 1000, 300, 1),
          FairEnv),
      Run(<<"3">>,
          Cfg(0, 1, "PROTON", FALSE, 1, MaxMonteCarloAnzahl, "POLARISATION_NONE", TRUE,
              100, 300, 0), FairEnv) }

InitFair == InitRuns(FairRuns)

FairSpec == InitFair /\ [][Next]_vars /\ WF_vars(IP_DriverStep)

\* A long charged-particle track: RowsPerStep rows from every driver step
RowsPerStep == 40

TrackEnv == Env({RowsPerStep + 1}, {5}, {5}, {}, {FALSE}, {1}, {2}, {0})

TrackRuns ==
    { Run(<<"7">>,
          Cfg(0, 1, "PROTON", FALSE, 0, 1, "POLARISATION_NONE", TRUE, RowsPerStep,
              TrackRolloverRows + RowsPerStep, 0), TrackEnv),
      Run(<<"7">>,
          Cfg(1, 1, "ELECTRONS", FALSE, 1, 1, "POLARISATION_NONE", TRUE, RowsPerStep,
              RowsPerStep, 0), TrackEnv) }

InitTrack == InitRuns(TrackRuns)

SpecTrack == InitTrack /\ [][Next]_vars

\* A long spin log: every Bloch segment returns BFRowsPerSegment + 1 samples
BFRowsPerSegment == 30000

BFLogEnv == Env({BFMinSamples + 1}, {1, 5}, {5}, {}, {FALSE}, {1}, {BFRowsPerSegment + 1}, {0})

BFLogRuns ==
    { Run(<<"7">>,
          Cfg(0, 4, "PROTON", TRUE, 0, 1, "POLARISATION_NONE", FALSE, 1000, 22000, 0),
          BFLogEnv),
      Run(<<"7">>,
          Cfg(0, 4, "NEUTRON", TRUE, 1, 1, "POLARISATION_GOOD", FALSE, 1000, 1000, 0),
          BFLogEnv) }

InitBFLog == InitRuns(BFLogRuns)

SpecBFLog == InitBFLog /\ [][Next]_vars

\* Spin flips: every step starts and ends in a high field and may dip below
\* BFTargetB in between; the Bloch integrator may return any projection
SpinFlipEnv == Env({BFMinSamples + 1}, {1, 5}, {5}, {}, {FALSE}, {-1, 0, 1}, {2}, {0})

SpinFlipRuns ==
    { Run(<<>>,
          Cfg(0, 5, "NEUTRON", TRUE, 0, 1, "POLARISATION_GOOD", TRUE, 1000, 3000, 0),
          SpinFlipEnv),
      Run(<<"3">>,
          Cfg(0, 5, "NEUTRON", TRUE, 1, 1, "POLARISATION_BAD", FALSE, 1000, 3000, 0),
          SpinFlipEnv),
      Run(<<"5">>,
          Cfg(0, 5, "PROTON", TRUE, 0, 1, "POLARISATION_NONE", TRUE, 1000, 3000, 0),
          SpinFlipEnv),
      Run(<<"7">>,
          Cfg(0, 5, "NEUTRON", TRUE, 0, 1, "POLARISATION_NONE", TRUE, 1000, 3000, 0),
          SpinFlipEnv) }

InitSpinFlip == InitRuns(SpinFlipRuns)

SpecSpinFlip == InitSpinFlip /\ [][Next]_vars

\* Energy bookkeeping: the total energy computed at the start and after each
\* step may fall and rise, and may be negative
EnergyEnv == [Env({MaxKount}, {5}, {5}, {}, {FALSE}, {1}, {2}, {0}) EXCEPT !.Hs = {-1, 0, 2}]

EnergyRuns ==
    { Run(<<"5">>, Cfg(0, 5, "PROTON", FALSE, 0, 1, "POLARISATION_NONE", TRUE, 100, 400, 0),
          EnergyEnv),
      Run(<<"7">>,
          Cfg(0, 5, "NEUTRON", FALSE, 1, MaxMonteCarloAnzahl, "POLARISATION_GOOD", TRUE,
              100, 200, 0), EnergyEnv) }

InitEnergy == InitRuns(EnergyRuns)

SpecEnergy == InitEnergy /\ [][Next]_vars

\* Monte-Carlo start values: a source volume in which GeomCheck accepts the
\* first draw, and one in which it accepts none.  The process keeps running:
\* the sampling loop and the driver loop execute their next iteration.
GoodStartEnv == [FairEnv EXCEPT !.BadParticle = {0}]

NoStartEnv == [FairEnv EXCEPT !.BadParticle = {1}]

CreateRuns ==
    { Run(<<>>, Cfg(0, 5, "NEUTRON", TRUE, 1, 1, "POLARISATION_GOOD", TRUE, 1000, 300, 1),
          GoodStartEnv),
      Run(<<"3">>,
          Cfg(0, 1, "PROTON", FALSE, 1, MaxMonteCarloAnzahl, "POLARISATION_NONE", TRUE,
              100, 300, 1), NoStartEnv) }

InitCreate == InitRuns(CreateRuns)

SpecCreate ==
    InitCreate /\ [][Next]_vars /\ WF_vars(IP_MCStartwerte) /\ WF_vars(IP_DriverStep)

\* A neutron track with spin tracking: long steps in a high field, which
\* write dense-output rows, and steps shorter than BahnPointSaveTime in a low
\* field, which write their end point
RowsEnv == Env({MaxKount}, {1, 5}, {1, 5}, {}, {FALSE}, {1}, {2}, {0})

RowsRuns ==
    { Run(<<"3">>,
          Cfg(0, 1, "NEUTRON", TRUE, 0, 1, "POLARISATION_GOOD", FALSE, 500, 700, 0),
          RowsEnv),
      Run(<<"5">>,
          Cfg(0, 1, "PROTON", FALSE, 1, 1, "POLARISATION_NONE", FALSE, 500, 700, 0),
          RowsEnv) }

InitRows == InitRuns(RowsRuns)

SpecRows == InitRows /\ [][Next]_vars

\* A long stay in low field: driver steps with CapKount dense samples each
\* fill the spin buffer up to its cap before a step in high field ends the stay
CapEnv ==
    [Env({2, 4 * BFMinSamples + 1}, {1}, {1, 5}, {}, {FALSE}, {1}, {2}, {0})
        EXCEPT !.lowUntil = BFBufferCap]

CapRuns ==
    { Run(<<"3">>,
          Cfg(0, 2, "NEUTRON", TRUE, 0, 1, "POLARISATION_GOOD", FALSE, 400, 2100, 0),
          CapEnv),
      Run(<<"5">>,
          Cfg(0, 2, "PROTON", FALSE, 1, 1, "POLARISATION_NONE", FALSE, 400, 2100, 0),
          QuietEnv) }

InitCap == InitRuns(CapRuns)

SpecCap == InitCap /\ [][Next]_vars

\* ------------------------------------------------------------------------
\* main (src/main.cpp)
\* ------------------------------------------------------------------------
MaxSimcount == 2

Names == {"neutron", "proton", "electron"}
MinStopID == -7
MaxStopID == 2
StopIDs == MinStopID..MaxStopID
TableModes == {"MR_THETA_OUT_ANGLE", "MR_THETA_I_ENERGY"}
FieldModes == {"BF_ONLY", "BF_CUT"}

InitMGlob ==
    [handlers |-> FALSE, simtype |-> "unset", simcount |-> 0, secondaries |-> 0,
     fields |-> FALSE, geom |-> FALSE, source |-> FALSE]
InitMHist ==
    [usage |-> FALSE, filesRead |-> FALSE, printed |-> "none", opened |-> "none",
     created |-> <<>>, integrated |-> <<>>, produced |-> 0, secondary |-> 0,
     codes |-> FALSE]
NoParticle == [name |-> "none", secs |-> <<>>]

\* line 79
AsksUsage_NeedsTwoArgs(av) == (Len(av) + 1 > 2) /\ (av[1] = "-h")

AsksUsage(av) == (Len(av) + 1 > 1) /\ (av[1] = "-h")

\* lines 79-82
M_Usage ==
    /\ m_pc = "start"
    /\ AsksUsage(m_argv)
    /\ m_hist' = [m_hist EXCEPT !.usage = TRUE]
    /\ m_pc' = "exit0"
    /\ UNCHANGED <<bvars, m_argv, m_config, m_env, m_args, m_glob, m_iMC, m_cur, ID_counter>>

\* lines 90-101
M_ParseArgs_ShiftedPaths(av) ==
    [jobnumber |-> IF Len(av) + 1 > 1 THEN Atoi(av[1]) ELSE 0,
     inpath |-> IF Len(av) + 1 > 3 THEN av[3] ELSE "./in",
     outpath |-> IF Len(av) + 1 > 3 THEN av[3] ELSE "./out",
     seed |-> IF Len(av) + 1 > 4 THEN Atoi(av[4]) ELSE 0]

M_ParseArgs(av) ==
    [jobnumber |-> IF Len(av) + 1 > 1 THEN Atoi(av[1]) ELSE 0,
     inpath |-> IF Len(av) + 1 > 2 THEN av[2] ELSE "./in",
     outpath |-> IF Len(av) + 1 > 3 THEN av[3] ELSE "./out",
     seed |-> IF Len(av) + 1 > 4 THEN Atoi(av[4]) ELSE 0]

\* lines 84-101: the signal handlers are installed, the arguments read
M_Args ==
    /\ m_pc = "start"
    /\ ~AsksUsage(m_argv)
    /\ m_glob' = [m_glob EXCEPT !.handlers = TRUE]
    /\ m_args' = M_ParseArgs(m_argv)
    /\ m_pc' = "config"
    /\ UNCHANGED <<bvars, m_argv, m_config, m_env, m_iMC, m_cur, ID_counter, m_hist>>

\* lines 250-275, called at line 117
M_ConfigInit(g, c) ==
    [g EXCEPT !.simtype = c.simtype, !.simcount = c.simcount, !.secondaries = c.secondaries]

\* lines 103-117: the three input files are read, then ConfigInit
M_ReadConfig ==
    /\ m_pc = "config"
    /\ m_glob' = M_ConfigInit(m_glob, m_config)
    /\ m_hist' = [m_hist EXCEPT !.filesRead = TRUE]
    /\ m_pc' = "dispatch"
    /\ UNCHANGED <<bvars, m_argv, m_config, m_env, m_args, m_iMC, m_cur, ID_counter>>

\* lines 119, 123
IsTableMode_OutAngleOnly(simtype) == simtype = "MR_THETA_OUT_ANGLE"

IsTableMode(simtype) == simtype \in TableModes

\* lines 133, 137
IsFieldMode(simtype) == simtype \in FieldModes

\* line 147
IsGeometryMode(simtype) == simtype = "GEOMETRY"

IsDiagnostic(simtype) == IsTableMode(simtype) \/ IsFieldMode(simtype) \/ IsGeometryMode(simtype)

\* The print routines.  PrintMROutAngle (301-305), PrintMRThetaIEnergy
\* (355-359), PrintBFieldCut (429-433) and PrintBField (478-482) leave with
\* exit(-1) when the output file cannot be opened; PrintGeometry (543-544)
\* does not look at its stream: the rows go nowhere and main returns 0.
PrintTable(mode, opened) ==
    IF opened THEN [pc |-> "return0", printed |-> mode]
    ELSE IF IsGeometryMode(mode) THEN [pc |-> "return0", printed |-> "none"]
    ELSE [pc |-> "exit-1", printed |-> "none"]

PrintAndLeave ==
    \E opened \in m_env.canOpen :
       /\ m_hist' = [m_hist EXCEPT
                       !.printed = PrintTable(m_glob.simtype, opened).printed,
                       !.opened = IF opened THEN "ok" ELSE "failed"]
       /\ m_pc' = PrintTable(m_glob.simtype, opened).pc

\* lines 119-126: the micro-roughness tables
M_TableMode ==
    /\ m_pc = "dispatch"
    /\ IsTableMode(m_glob.simtype)
    /\ PrintAndLeave
    /\ UNCHANGED <<bvars, m_argv, m_config, m_env, m_args, m_glob, m_iMC, m_cur, ID_counter>>

\* lines 129-131: TFieldManager field(geometryin)
M_LoadFields ==
    /\ m_pc = "dispatch"
    /\ ~IsTableMode(m_glob.simtype)
    /\ m_glob' = [m_glob EXCEPT !.fields = TRUE]
    /\ m_pc' = "fields"
    /\ UNCHANGED <<bvars, m_argv, m_config, m_env, m_args, m_iMC, m_cur, ID_counter, m_hist>>

\* lines 133-140: the field tables
M_FieldMode ==
    /\ m_pc = "fields"
    /\ IsFieldMode(m_glob.simtype)
    /\ PrintAndLeave
    /\ UNCHANGED <<bvars, m_argv, m_config, m_env, m_args, m_glob, m_iMC, m_cur, ID_counter>>

\* lines 143-145: TGeometry geom(geometryin)
M_LoadGeometry ==
    /\ m_pc = "fields"
    /\ ~IsFieldMode(m_glob.simtype)
    /\ m_glob' = [m_glob EXCEPT !.geom = TRUE]
    /\ m_pc' = "geometry"
    /\ UNCHANGED <<bvars, m_argv, m_config, m_env, m_args, m_iMC, m_cur, ID_counter, m_hist>>

\* lines 147-151: the geometry sample
M_GeometryMode ==
    /\ m_pc = "geometry"
    /\ IsGeometryMode(m_glob.simtype)
    /\ PrintAndLeave
    /\ UNCHANGED <<bvars, m_argv, m_config, m_env, m_args, m_glob, m_iMC, m_cur, ID_counter>>

\* lines 153-173: the random generator, the source and the counters
M_LoadSource ==
    /\ m_pc = "geometry"
    /\ ~IsGeometryMode(m_glob.simtype)
    /\ m_glob' = [m_glob EXCEPT !.source = TRUE]
    /\ m_pc' = "simtype"
    /\ UNCHANGED <<bvars, m_argv, m_config, m_env, m_args, m_iMC, m_cur, ID_counter, m_hist>>

\* lines 200-201: the particle loop starts
M_EnterLoop ==
    /\ m_pc = "simtype"
    /\ m_glob.simtype = "PARTICLE"
    /\ m_iMC' = 1
    /\ m_pc' = "loop"
    /\ UNCHANGED <<bvars, m_argv, m_config, m_env, m_args, m_glob, m_cur, ID_counter, m_hist>>

\* lines 220-223
M_UnknownSimtype ==
    /\ m_pc = "simtype"
    /\ m_glob.simtype # "PARTICLE"
    /\ m_pc' = "exit-1"
    /\ UNCHANGED <<bvars, m_argv, m_config, m_env, m_args, m_glob, m_iMC, m_cur, ID_counter,
                   m_hist>>

\* line 201
M_LoopCond_StopsOneShort(i, simcount) == i < simcount

M_LoopCond(i, simcount) == i <= simcount

\* line 203: source.CreateParticle()
M_CreateParticle ==
    /\ m_pc = "loop"
    /\ M_LoopCond(m_iMC, m_glob.simcount)
    /\ \E n \in m_env.sources :
          m_cur' = [name |-> n, secs |-> <<>>]
    /\ m_hist' = [m_hist EXCEPT !.created = Append(@, m_iMC)]
    /\ m_pc' = "created"
    /\ UNCHANGED <<bvars, m_argv, m_config, m_env, m_args, m_glob, m_iMC, ID_counter>>

\* line 205 and line 213
Count_Overwrites(counter, name, stopID) == [counter EXCEPT ![name][stopID] = 1]

Count(counter, name, stopID) == [counter EXCEPT ![name][stopID] = @ + 1]

\* line 208
FetchesSecondaries_AnyNonzero(secondaries) == secondaries # 0

FetchesSecondaries(secondaries) == secondaries = 1

\* lines 204-209: the primary is integrated and counted; its secondaries are
\* fetched when secondaries == 1
M_IntegratePrimary ==
    /\ m_pc = "created"
    /\ \E stopID \in m_env.stops, secs \in m_env.secondaries :
          /\ ID_counter' = Count(ID_counter, m_cur.name, stopID)
          /\ m_cur' = [m_cur EXCEPT
                         !.secs = IF FetchesSecondaries(m_glob.secondaries) THEN secs ELSE <<>>]
          /\ m_hist' = [m_hist EXCEPT !.integrated = Append(@, m_iMC),
                                      !.produced = @ + Len(secs)]
    /\ m_pc' = "secondaries"
    /\ UNCHANGED <<bvars, m_argv, m_config, m_env, m_args, m_glob, m_iMC>>

\* lines 210-214
M_IntegrateSecondary ==
    /\ m_pc = "secondaries"
    /\ m_cur.secs # <<>>
    /\ \E stopID \in m_env.stops :
          ID_counter' = Count(ID_counter, Head(m_cur.secs), stopID)
    /\ m_cur' = [m_cur EXCEPT !.secs = Tail(@)]
    /\ m_hist' = [m_hist EXCEPT !.secondary = @ + 1]
    /\ UNCHANGED <<bvars, m_argv, m_config, m_env, m_pc, m_args, m_glob, m_iMC>>

\* lines 217, 201: delete p; iMC++
M_NextParticle ==
    /\ m_pc = "secondaries"
    /\ m_cur.secs = <<>>
    /\ m_cur' = NoParticle
    /\ m_iMC' = m_iMC + 1
    /\ m_pc' = "loop"
    /\ UNCHANGED <<bvars, m_argv, m_config, m_env, m_args, m_glob, ID_counter, m_hist>>

\* lines 227-240
M_OutputCodes ==
    /\ m_pc = "loop"
    /\ ~M_LoopCond(m_iMC, m_glob.simcount)
    /\ m_hist' = [m_hist EXCEPT !.codes = TRUE]
    /\ m_pc' = "return0"
    /\ UNCHANGED <<bvars, m_argv, m_config, m_env, m_args, m_glob, m_iMC, m_cur, ID_counter>>

\* lines 64-67: one of the four caught signals arrives
M_Signal ==
    /\ m_glob.handlers
    /\ m_pc \notin {"return0", "exit0", "exit1", "exit-1"}
    /\ m_pc' = "exit1"
    /\ UNCHANGED <<bvars, m_argv, m_config, m_env, m_args, m_glob, m_iMC, m_cur, ID_counter,
                   m_hist>>

NextMain ==
    \/ M_Usage
    \/ M_Args
    \/ M_ReadConfig
    \/ M_TableMode
    \/ M_LoadFields
    \/ M_FieldMode
    \/ M_LoadGeometry
    \/ M_GeometryMode
    \/ M_LoadSource
    \/ M_EnterLoop
    \/ M_UnknownSimtype
    \/ M_CreateParticle
    \/ M_IntegratePrimary
    \/ M_IntegrateSecondary
    \/ M_NextParticle
    \/ M_OutputCodes
    \/ M_Signal

ProgramOff ==
    /\ argv = <<>> /\ config = <<>> /\ env = <<>> /\ pc = "off" /\ ipc = "none"
    /\ args = <<>> /\ fh = InitFh /\ mt_seed = <<0, 0>> /\ glob = InitGlob
    /\ iMC = 0 /\ lv = LoopStart
    /\ part = InitPart /\ bf = InitBf /\ outp = InitOutp /\ hist = InitHist

MainArgvs ==
    {<<>>, <<"-h">>, <<"-h", "./in3">>, <<"7">>, <<"7", "-h">>,
     <<"7", "./in3", "./out3", "42">>}

MainConfigs ==
    {[simtype |-> t, simcount |-> n, secondaries |-> sec] :
        t \in {"PARTICLE"}, n \in 0..MaxSimcount, sec \in {0, 1, 2}}
    \cup {[simtype |-> t, simcount |-> 1, secondaries |-> 1] :
        t \in TableModes \cup FieldModes \cup {"GEOMETRY", "other"}}

MainEnvs ==
    {[sources |-> {"neutron"}, stops |-> {-4, -1, 2},
      secondaries |-> {<<>>, <<"proton", "electron">>}, canOpen |-> {TRUE, FALSE}]}

InitMainState ==
    /\ m_pc = "start"
    /\ m_args = [jobnumber |-> 0, inpath |-> "", outpath |-> "", seed |-> 0]
    /\ m_glob = InitMGlob
    /\ m_iMC = 0
    /\ m_cur = NoParticle
    /\ ID_counter = [n \in Names |-> [i \in StopIDs |-> 0]]
    /\ m_hist = InitMHist

InitMain ==
    /\ m_argv \in MainArgvs
    /\ m_config \in MainConfigs
    /\ m_env \in MainEnvs
    /\ InitMainState
    /\ ProgramOff

SpecMain == InitMain /\ [][NextMain]_vars

\* The command line alone: both programs read their arguments
ArgWords ==
    {<<>>, <<"7">>, <<"3">>, <<"7", "./in3">>, <<"42", "./in2">>,
     <<"7", "./in3", "./out3">>, <<"5", "./in2", "./out3">>,
     <<"7", "./in3", "./out3", "42">>, <<"3", "./in2", "./out3", "5">>}

InitArgs ==
    /\ argv \in ArgWords
    /\ config = Cfg(0, 5, "NEUTRON", FALSE, 0, 1, "POLARISATION_NONE", TRUE, 1000, 100, 0)
    /\ env = QuietEnv
    /\ InitProgram
    /\ m_argv \in ArgWords \cup {<<"-h">>}
    /\ m_config = [simtype |-> "PARTICLE", simcount |-> 1, secondaries |-> 0]
    /\ m_env \in MainEnvs
    /\ InitMainState

NextArgs ==
    \/ Main_ParseArgs
    \/ M_Usage
    \/ M_Args

SpecArgs == InitArgs /\ [][NextArgs]_vars

\* ------------------------------------------------------------------------
\* Properties
\* ------------------------------------------------------------------------

\* C1: after a driver step whose smallest |B| is not below BFTargetB, samples
\* collected before it have been integrated in that same call and the buffer
\* is empty (offset = 0).
C1_BufferEmptyAfterHighStep ==
    (hist.last.called /\ hist.last.Bmin >= BFTargetB) =>
        /\ (hist.last.offsetFilled > 0 => hist.last.integrated)
        /\ bf.offset = 0

\* C2: the survival probability is multiplied once for each completed Bloch
\* segment, by the BFpol that this very segment produced: the i-th update
\* uses the i-th segment, never an earlier one and never the initial 0.5.
C2_UpdateUsesOwnSegment ==
    /\ Len(hist.updates) = hist.segs
    /\ \A i \in 1..Len(hist.updates) : hist.updates[i] = i

\* C3: a call of BruteForceIntegration appends samples if and only if the
\* smallest |B| of the step is below BFTargetB; a step that is not below it
\* appends nothing and, the buffer being empty, starts no integration.
C3_AppendIffLowField ==
    hist.last.called =>
        /\ (hist.last.nAppended > 0) <=> (hist.last.Bmin < BFTargetB)
        /\ (hist.last.Bmin >= BFTargetB /\ hist.last.offsetBefore = 0)
              => (~hist.last.integrated /\ hist.last.offsetFilled = 0)

C3_Witness ==
    /\ hist.last.called /\ hist.last.nAppended > 0 /\ hist.last.offsetBefore > 0
    /\ hist.last.Bmin < BFTargetB

\* C4: when IntegrateParticle returns, the particle has had exactly one end
\* record (ausgabe) and one stop-code count (IncrementCodes), on every path.
C4_OneEndRecordPerParticle ==
    (pc = "integrate" /\ ipc = "ret") => (hist.ausgabe = 1 /\ hist.incs = 1)

\* C5: in PARTICLE mode exactly simcount primaries are created and integrated,
\* one after another in index order, whatever stop codes the earlier ones got.
C5_ExactlySimcountPrimaries ==
    /\ m_hist.created = [i \in 1..Len(m_hist.created) |-> i]
    /\ m_hist.integrated =
          [i \in 1..Len(m_hist.integrated) |-> m_hist.created[i]]
    /\ Len(m_hist.created) - Len(m_hist.integrated) \in {0, 1}
    /\ (m_pc \in {"loop", "secondaries", "return0"})
          => Len(m_hist.created) = Len(m_hist.integrated)
    /\ (m_pc = "return0" /\ m_glob.simtype = "PARTICLE" /\ m_glob.simcount >= 0)
          => Len(m_hist.integrated) = m_glob.simcount

C5_Witness ==
    /\ m_pc = "return0" /\ m_glob.simtype = "PARTICLE" /\ m_glob.simcount >= 2
    /\ Len(m_hist.integrated) = m_glob.simcount
    /\ ID_counter["neutron"][-4] + ID_counter["neutron"][-1] = m_glob.simcount

\* C6: the driver loop of a particle always comes to an end; it is left only
\* after a step of positive length, and only when the time is up
\* (x2 - xstart > xend) or the particle has been stopped.
C6_DriverLoopTerminates ==
    /\ (ipc = "loop") ~> (ipc # "loop")
    /\ [](ipc = "after" =>
            /\ hist.last.delx_n > 0
            /\ hist.last.delx_n \in {glob.delx, glob.delx \div 10, glob.delx \div 100}
            /\ part.x2 = part.x1 + hist.last.delx_n
            /\ (part.x2 - part.xstart > glob.xend \/ part.stopall = 1))

C6_Witness ==
    /\ ipc = "after" /\ part.stopall = 0 /\ part.x1 > part.xstart
    /\ part.x2 - part.xstart > glob.xend

\* C7: no write ever goes through a log handle that is still NULL, whatever
\* the configuration asks for.
C7_NoWriteThroughNull == hist.nullWrites = {}

\* C8: no track file ever receives more than 40000 rows.
C8_TrackFileAtMost40000Rows == hist.trackPeak <= TrackRolloverRows

\* C9: no BF log file ever receives more than 100000 rows, and the rollover
\* only ever closes a BF log that is open.
C9_BFLogAtMost100000Rows == (hist.bfPeak <= BFRolloverRows) /\ ~hist.badRollover

\* C10: two executions of the same command line on the same configuration
\* seed the random generator identically.
C10_SameSeedBothRuns ==
    (pc \notin {"args", "openlogs", "seed"}) => (mt_seed[1] = mt_seed[2])

\* C11: secondaries are integrated if and only if the configuration value
\* secondaries is 1.  With 1, every secondary a primary produced is integrated
\* and counted once, after that primary and before the next primary is
\* created; with any other value none is integrated or counted.
RECURSIVE CountAll(_, _)
CountAll(counter, cells) ==
    IF cells = {} THEN 0
    ELSE LET c == CHOOSE x \in cells : TRUE
         IN  counter[c[1]][c[2]] + CountAll(counter, cells \ {c})

C11_SecondariesIffFlag ==
    (m_pc \notin {"start", "exit0"}) =>
        /\ CountAll(ID_counter, Names \X StopIDs)
              = Len(m_hist.integrated) + m_hist.secondary
        /\ (m_config.secondaries # 1) => (m_hist.secondary = 0)
        /\ (m_config.secondaries = 1 /\ m_pc \in {"loop", "created", "return0"})
              => (m_hist.secondary = m_hist.produced)
        /\ (m_config.secondaries = 1 /\ m_pc = "secondaries")
              => (m_hist.secondary + Len(m_cur.secs) = m_hist.produced)
        /\ (m_pc = "created") => (m_cur.secs = <<>>)
        /\ (m_cur.secs # <<>>) => (Len(m_hist.integrated) = Len(m_hist.created))

C11_Witness ==
    /\ m_pc = "return0" /\ m_config.secondaries = 1
    /\ Len(m_hist.integrated) = 2 /\ m_hist.secondary = 4
    /\ ID_counter["proton"][2] = 1 /\ ID_counter["electron"][-4] = 2

C13_NonzeroExitOnFatalError ==
    /\ (m_hist.opened = "failed") => (m_pc = "exit-1")
    /\ (m_pc = "return0" /\ m_config.simtype = "PARTICLE") => m_hist.codes
    /\ (m_config.simtype \notin TableModes \cup FieldModes \cup {"GEOMETRY", "PARTICLE"})
          => (m_pc # "return0" /\ m_hist.integrated = <<>>)

\* C14: the command-line arguments are positional and optional.  The k-th
\* word, when present, gives the k-th of jobnumber, inpath, outpath, seed and
\* nothing else; an absent one leaves the default 0, "./in", "./out".
\* main.cpp reads all four, bahnen2005.c the first three.
DecimalValue == ("3" :> 3) @@ ("5" :> 5) @@ ("7" :> 7) @@ ("42" :> 42)

Positional(av, a) ==
    /\ a.jobnumber = IF Len(av) >= 1 THEN DecimalValue[av[1]] ELSE 0
    /\ a.inpath = IF Len(av) >= 2 THEN av[2] ELSE "./in"
    /\ a.outpath = IF Len(av) >= 3 THEN av[3] ELSE "./out"

C15_UsageExitsFirst ==
    /\ (m_pc \notin {"off", "start"} /\ Len(m_argv) >= 1 /\ m_argv[1] = "-h") =>
          /\ m_pc = "exit0" /\ m_hist.usage
          /\ ~m_glob.handlers /\ ~m_hist.filesRead
          /\ m_hist.printed = "none" /\ m_hist.opened = "none"
          /\ m_hist.created = <<>> /\ ~m_hist.codes
    /\ (m_pc # "off" /\ (m_hist.usage \/ m_pc = "exit0")) =>
          (Len(m_argv) >= 1 /\ m_argv[1] = "-h")

C15_Witness ==
    /\ m_pc = "exit0" /\ m_hist.usage /\ m_argv = <<"-h", "./in3">> /\ ~m_glob.handlers

C17_SpinLabelChangesOnlyByFlip ==
    [][(<<bf.hfs, bf.mu_n, bf.mumB, bf.NSF>>' # <<bf.hfs, bf.mu_n, bf.mumB, bf.NSF>>) =>
          \/ ipc = "init"
          \/ /\ ipc = "loop" /\ glob.BruteForce /\ glob.flipspin
             /\ hist'.last.called /\ hist'.last.updated
             /\ bf'.hfs = (-1) * bf.hfs /\ bf'.NSF = bf.NSF + 1
             /\ bf'.mu_n = bf'.hfs /\ bf'.mumB = bf'.hfs]_vars

C17_Witness ==
    /\ glob.protneut = "NEUTRON" /\ glob.flipspin /\ ipc = "after"
    /\ hist.last.updated /\ bf.NSF = 1 /\ bf.hfs = 1 /\ bf.mu_n = 1

\* C18: for a proton or an electron BruteForceIntegration is never called,
\* whatever BruteForce is set to: no sample is buffered, no Bloch segment
\* integrated, and survival probability and flip counter keep their start
\* values.
C18_SpinIntegratorNeutronsOnly ==
    (glob.protneut \in {"PROTON", "ELECTRONS"}) =>
        /\ ~hist.last.called
        /\ bf.offset = 0 /\ hist.segs = 0
        /\ bf.BFsurvprob = <<1, 1>> /\ bf.NSF = 0

\* C19: Hmax is the initial energy before the first step; at the end of every
\* driver step it is at least that step's H and is the largest of the
\* initial H and all step-end values so far; during one particle it never
\* decreases.
C19_HmaxIsRunningMaximum ==
    /\ []((pc = "integrate" /\ ipc \in {"loop", "after"}) =>
            /\ part.H <= part.Hmax
            /\ part.Hmax \in hist.Hseen
            /\ \A h \in hist.Hseen : h <= part.Hmax
            /\ (~hist.last.called /\ hist.last.delx_n = 0) => (part.Hmax = part.H))
    /\ [][(ipc = "loop") => (part.Hmax' >= part.Hmax)]_vars

C19_Witness ==
    /\ pc = "integrate" /\ ipc = "loop" /\ hist.Hseen = {-1, 0, 2}
    /\ part.H = -1 /\ part.Hmax = 2

\* C20: drawing the start values of a Monte-Carlo particle always comes to an
\* end, also when no start position inside the geometry can be found.
C20_ParticleCreationTerminates == (ipc = "mcstart") ~> (ipc # "mcstart")

\* C21: within one particle every track row carries a time strictly greater
\* than the row written before it, in dense-output steps, in end-point steps
\* and across a change between the two.
C21_TrackRowsInTimeOrder ==
    \A i \in 1..Len(hist.stepRows) :
        IF i > 1 THEN hist.stepRows[i] > hist.stepRows[i - 1]
        ELSE (hist.rowBefore # <<>>) => (hist.stepRows[1] > hist.rowBefore[1])

C21_Witness ==
    /\ Len(hist.stepRows) >= 2 /\ hist.rowBefore # <<>>
    /\ outp.timetemp > 0 /\ hist.rowBefore[1] = outp.timetemp
    /\ outp.time_temp > outp.timetemp

\* C22: every particle starts with the spin sub-integrator in the state in
\* which the first particle started (BFBmin, BFPolmin, offset, BFpol,
\* BFsurvprob, BFflipprob, firstint), so that its first call of
\* BruteForceIntegration, like the first particle's, updates no survival
\* probability and draws no random number.
C22_ParticlesStartAlike ==
    (pc = "integrate" /\ ipc \in {"loop", "after"} /\ glob.BruteForce) =>
        /\ (hist.last = NoStep) =>
              /\ bf.BFBmin = BFBminReset /\ ~bf.BFPolmin
              /\ bf.offset = 0 /\ bf.BFpol = 1 /\ bf.firstint = 0
              /\ bf.BFsurvprob = <<1, 1>> /\ bf.BFflipprob = <<0, 1>>
        /\ (hist.last.called /\ part.x1 = part.xstart) =>
              (~hist.last.updated /\ hist.updates = <<>> /\ hist.draws = 0)

\* C23: a particle that the test before the loop (Entkommen at the start
\* point) has already stopped is integrated no further: no driver step and no
\* spin integration runs for it, and its time stays at the start time.
C23_StoppedAtStartIsNotIntegrated ==
    (pc = "integrate" /\ ipc \in {"loop", "after"} /\ hist.startStop) =>
        (hist.last = NoStep /\ part.x2 = part.xstart)

\* C24: with BruteForce on, a driver step is delx/100 long when it starts in a
\* field below BFTargetB, delx/10 long when it starts in a field of at least
\* BFTargetB and below BFTargetB + 0.1 T, and delx long otherwise; with
\* BruteForce off it is always delx long.
C24_StepLengthByField ==
    [][(pc = "integrate" /\ ipc = "loop" /\ part'.x2 # part.x2) =>
          part'.x2 - part.x2 =
              IF glob.BruteForce /\ part.Bws < BFTargetB THEN glob.delx \div 100
              ELSE IF glob.BruteForce /\ part.Bws < BFTargetB + BFStepMargin
                   THEN glob.delx \div 10
              ELSE glob.delx]_vars

\* C25: in Monte-Carlo mode IntegrateParticle is called exactly once for each
\* iMC in 1..MonteCarloAnzahl, also when a call returns early because of a
\* negative kinetic energy; with MonteCarlo = 0 MonteCarloAnzahl is 1.
C25_OneParticlePerMonteCarloPass ==
    /\ (pc = "integrate" /\ glob.MonteCarlo # 0) =>
          hist.calls = (IF ipc = "none" THEN iMC - 1 ELSE iMC)
    /\ (pc \in {"codes", "done"} /\ glob.MonteCarlo # 0) =>
          hist.calls = glob.MonteCarloAnzahl
    /\ (pc \in {"integrate", "codes", "done"} /\ glob.MonteCarlo = 0) =>
          glob.MonteCarloAnzahl = 1

\* C26: the times kept in the spin buffer, BFtime[1..offset], are strictly
\* increasing at all times: after every call of BruteForceIntegration and
\* inside the call when the samples have been appended.
C26_BufferTimesIncrease ==
    /\ Len(bf.BFtime) = bf.offset
    /\ StrictlyIncreasing(bf.BFtime)
    /\ hist.last.called => hist.last.ordered

C26_Witness ==
    /\ hist.last.called /\ hist.last.offsetBefore > 0 /\ hist.last.nAppended > 0
    /\ ~hist.last.integrated
    /\ Len(bf.BFtime) >= 4
    /\ bf.BFtime[hist.last.offsetBefore + 1] > bf.BFtime[hist.last.offsetBefore] + 1

\* C27: when the buffer cap splits one stay in low field into several Bloch
\* segments, every later segment starts from the spin vector I_n the segment
\* before it ended with; I_n is set parallel to the field only for the first
\* segment after an adiabatic step.
C27_SpinVectorContinuesAcrossSegments ==
    (hist.last.called /\ hist.last.integrated /\ hist.last.later) =>
        hist.last.I_start = hist.last.I_before

\* C28: after every call of BruteForceIntegration offset is below the buffer
\* cap, and 0 whenever the call integrated; the highest buffer index a call
\* writes is at most 1999 + kount.
C28_OffsetStaysBelowCap ==
    /\ bf.offset < BFBufferCap
    /\ hist.last.called =>
          /\ hist.last.integrated => bf.offset = 0
          /\ hist.last.offsetBefore < BFBufferCap
          /\ hist.last.offsetFilled <= (BFBufferCap - 1) + hist.last.kount

C28_Witness ==
    /\ hist.last.called /\ hist.last.integrated /\ bf.offset = 0
    /\ hist.last.Bmin < BFTargetB
    /\ hist.last.offsetFilled >= BFBufferCap
    /\ hist.last.offsetFilled > hist.last.offsetBefore

\* C29: with BruteForce on, at every step boundary the magnetic moment follows
\* the spin label (mu_n = hfs mu_nSI / ele_e and mumB = mu_n / M), and NSF is
\* the number of times the sign of hfs has changed since the particle started,
\* also for an unpolarised particle (hfs = 0).
C29_MomentAndFlipCountFollowSpinLabel ==
    (pc = "integrate" /\ ipc \in {"loop", "after"} /\ glob.BruteForce) =>
        /\ bf.mu_n = bf.hfs
        /\ bf.mumB = bf.mu_n
        /\ bf.NSF = hist.signChanges

\* C30: every Integrate call, of a primary or of a secondary, is followed by
\* one increment of exactly one counter ID_counter[name][stop code]; no other
\* step, the report of OutputCodes included, changes a counter.
C30_OneCountPerIntegrate ==
    [][LET before == Len(m_hist.integrated) + m_hist.secondary
           after == Len(m_hist'.integrated) + m_hist'.secondary
       IN  /\ after - before \in {0, 1}
           /\ (after = before) => (ID_counter' = ID_counter)
           /\ (after = before + 1) =>
                 \E c \in Names \X StopIDs :
                     /\ ID_counter'[c[1]][c[2]] = ID_counter[c[1]][c[2]] + 1
                     /\ \A d \in (Names \X StopIDs) \ {c} :
                           ID_counter'[d[1]][d[2]] = ID_counter[d[1]][d[2]]]_vars

C30_Witness ==
    /\ m_hist.codes /\ m_pc = "return0"
    /\ Len(m_hist.integrated) >= 1 /\ m_hist.secondary >= 1
    /\ \E n \in Names, k \in StopIDs : ID_counter[n][k] >= 2
    /\ \E n1, n2 \in Names : \E k1, k2 \in StopIDs :
          n1 # n2 /\ ID_counter[n1][k1] > 0 /\ ID_counter[n2][k2] > 0

====
